---- MODULE Spec2Model ----
(***************************************************************************)
(* State-machine model of run.py: the DARTS architecture-search driver.    *)
(* main() builds the data split, the optimizers and the scheduler and then *)
(* runs the epoch loop (train, lr_scheduler.step, validate, genotype,      *)
(* checkpoint); train() runs the bilevel minibatch protocol; validate()    *)
(* runs one pass over the validation half.                                 *)
(*                                                                         *)
(* Abstractions.  alpha and w are version counters: the number of          *)
(* alpha_optim.step() / w_optim.step() calls applied so far.  A validation *)
(* top-1 is the exact rational <<sum, count>> of the AverageMeter.  A      *)
(* sampler pass is the set of indexes not yet emitted; a minibatch is any  *)
(* subset of it of the loader's batch size.                                *)
(***************************************************************************)
EXTENDS Integers, Sequences, FiniteSets

\* ------------------------------------------------------------- bounds
MaxN == 5         \* dataset sizes 0..MaxN
MaxBatch == 3     \* batch sizes 1..MaxBatch
MaxEpochs == 3    \* epoch counts 0..MaxEpochs
MaxShuffle == 3   \* passes with more pending indexes draw only the two extreme batches

\* config.print_freq values tried (config.py is outside the listing)
PrintFreqs == {1, 4, 5}

\* the end-to-end scenario of the specification: N=100, batch 10, one epoch
Scenario == [n |-> 100, b |-> 10, e |-> 1, pf |-> 5]

\* config.w_momentum, config.w_weight_decay, config.alpha_weight_decay in units of
\* 1e-4 and 1e-1: the two decays different, and the two decays equal
Hypers == {[w_momentum |-> 9, w_weight_decay |-> 3, alpha_weight_decay |-> 10],
           [w_momentum |-> 9, w_weight_decay |-> 3, alpha_weight_decay |-> 3]}

Configs ==
    {[n |-> n, b |-> b, e |-> e, pf |-> pf] :
        n \in 0..MaxN, b \in 1..MaxBatch, e \in 0..MaxEpochs, pf \in PrintFreqs}
    \cup {Scenario}

VARIABLES
    n_train, batch_size, epochs, print_freq,   \* len(train_data) and config.*
    hyper,                                     \* config's momentum and weight decays
    w_optim_conf, arch_conf,                   \* what w_optim and arch were built with
    mode,                                      \* the model's train()/eval() mode
    val_step,                                  \* validate()'s cur_step
    pc,                                        \* position in main/train/validate
    train_indices, valid_indices,              \* the two samplers' index lists
    epoch, lr_sched, lr,                       \* loop index, scheduler position, lr read
    alpha, w, alpha_grad, w_grad,              \* parameters (versions) and gradient state
    best_top1, best_genotype, top1, genotype,  \* main()'s locals
    train_rem, valid_rem,                      \* pending indexes of the live iterators
    train_batch, valid_batch,                  \* the minibatch pair of the current step
    step, cur_step, loss, meter_n,             \* train()'s locals
    val_sum, val_n,                            \* validate()'s top1 meter
    \* history (observation only, never read by the program)
    stepLog, phaseLog, top1Hist, genoHist, ckptLog,
    emit_train, emit_valid, alpha0, w0, fwd_read, nonfinite_seen, drawn

vars == <<n_train, batch_size, epochs, print_freq, hyper, w_optim_conf, arch_conf,
          mode, val_step, pc, train_indices, valid_indices,
          epoch, lr_sched, lr, alpha, w, alpha_grad, w_grad, best_top1, best_genotype,
          top1, genotype, train_rem, valid_rem, train_batch, valid_batch, step,
          cur_step, loss, meter_n, val_sum, val_n, stepLog, phaseLog, top1Hist,
          genoHist, ckptLog, emit_train, emit_valid, alpha0, w0, fwd_read,
          nonfinite_seen, drawn>>

cfgVars == <<n_train, batch_size, epochs, print_freq, hyper>>
optVars == <<w_optim_conf, arch_conf>>
splitVars == <<train_indices, valid_indices>>
paramVars == <<alpha, w, alpha_grad, w_grad>>
bestVars == <<best_top1, best_genotype, top1, genotype>>
iterVars == <<train_rem, valid_rem, train_batch, valid_batch, emit_train, emit_valid, drawn>>
valVars == <<val_sum, val_n>>
histVars == <<top1Hist, genoHist, ckptLog>>

\* ------------------------------------------------------------ helpers
Min(a, b) == IF a < b THEN a ELSE b

Range(s) == {s[i] : i \in 1..Len(s)}

\* exact rationals <<num, den>>, den >= 1
RatLess(a, b) == a[1] * b[2] < b[1] * a[2]
RatEq(a, b) == a[1] * b[2] = b[1] * a[2]

\* the k smallest, and the k largest, elements of a set of integers
Lowest(S, k) == {x \in S : Cardinality({y \in S : y < x}) < k}

Highest(S, k) == {x \in S : Cardinality({y \in S : y > x}) < k}

\* ------------------------------------------------- main(): the split
\* split = n_train // 2
Split(n) == n \div 2

\* indices = list(range(n_train))
Indices(n) == [i \in 1..n |-> i - 1]

\* indices[:split]
TrainIndices(n) == SubSeq(Indices(n), 1, Split(n))

\* ValidIndices that starts one index late
ValidIndicesLate(n) == SubSeq(Indices(n), Split(n) + 2, n)

\* indices[split:]
ValidIndices(n) == SubSeq(Indices(n), Split(n) + 1, n)

\* len(DataLoader) of a loader that drops its last partial minibatch
LoaderLenFloor(size, b) == size \div b

\* len(DataLoader) with drop_last left at False: ceil(size / batch_size)
LoaderLen(size, b) == (size + b - 1) \div b

\* TakeSize of a loader built without batch_size (the DataLoader default of 1)
TakeSizeOne(rem, b) == Min(1, Cardinality(rem))

\* the number of indexes the loader takes for its next minibatch
TakeSize(rem, b) == Min(b, Cardinality(rem))

\* the minibatches a SubsetRandomSampler pass can emit next
Batches(rem, b) ==
    LET k == TakeSize(rem, b)
    IN IF Cardinality(rem) <= MaxShuffle
       THEN {S \in SUBSET rem : Cardinality(S) = k}
       ELSE {Lowest(rem, k), Highest(rem, k)}

\* Pending of a sampler that draws with replacement
PendingAll(rem, batch) == rem

\* what a pass still holds after emitting a minibatch (a permutation: no replacement)
Pending(rem, batch) == rem \ batch

\* emission counts of a pass
NoEmits == [i \in 0..(n_train - 1) |-> 0]
Emit(cnt, batch) == [i \in DOMAIN cnt |-> IF i \in batch THEN cnt[i] + 1 ELSE cnt[i]]

\* AverageMeter.avg: sum / count, 0 before the first update
Avg(sum, count) == IF count = 0 THEN <<0, 1>> ELSE <<sum, count>>

\* model.genotype(): a many-to-one discretisation of the current alpha
Genotype(a) == a \div 2

\* config.w_lr and config.w_lr_min, in units of 1e-3
WLr == 25
WLrMin == 1

\* 1000 * cos(pi * t / T) for 0 <= t <= T, by Bhaskara's rational approximation
\* (exact at t = 0, T/2 and T, strictly decreasing in between)
RECURSIVE Cos1000(_, _)
Cos1000(t, T) ==
    IF 2 * t <= T THEN (1000 * (T * T - 4 * t * t)) \div (T * T + t * t)
    ELSE 0 - Cos1000(T - t, T)

\* lr_scheduler.get_last_lr()[0] of CosineAnnealingLR(w_optim, config.epochs,
\* eta_min=config.w_lr_min) after pos calls of step(): the rate w_optim holds
LastLr(pos) ==
    IF pos = 0 THEN WLr
    ELSE WLrMin + ((WLr - WLrMin) * (1000 + Cos1000(pos, epochs))) \div 2000

\* AfterOp with the clipping moved behind the weight update
AfterOpClipLate(op) ==
    CASE op = "alpha_zero_grad" -> "unrolled_backward"
      [] op = "unrolled_backward" -> "alpha_step"
      [] op = "alpha_step" -> "w_zero_grad"
      [] op = "w_zero_grad" -> "forward"
      [] op = "forward" -> "backward"
      [] op = "backward" -> "w_step"
      [] op = "w_step" -> "clip_grad"
      [] op = "clip_grad" -> "metrics"
      [] op = "metrics" -> "telemetry"
      [] op = "telemetry" -> "fetch"

\* AfterOp with the weight update done before the architecture update
AfterOpArchLate(op) ==
    CASE op = "alpha_zero_grad" -> "w_zero_grad"
      [] op = "w_zero_grad" -> "forward"
      [] op = "forward" -> "backward"
      [] op = "backward" -> "clip_grad"
      [] op = "clip_grad" -> "w_step"
      [] op = "w_step" -> "unrolled_backward"
      [] op = "unrolled_backward" -> "alpha_step"
      [] op = "alpha_step" -> "metrics"
      [] op = "metrics" -> "telemetry"
      [] op = "telemetry" -> "fetch"

\* ----------------------------------------------- order of statements
\* train(): the statement that follows each statement of the loop body
AfterOp(op) ==
    CASE op = "alpha_zero_grad" -> "unrolled_backward"
      [] op = "unrolled_backward" -> "alpha_step"
      [] op = "alpha_step" -> "w_zero_grad"
      [] op = "w_zero_grad" -> "forward"
      [] op = "forward" -> "backward"
      [] op = "backward" -> "clip_grad"
      [] op = "clip_grad" -> "w_step"
      [] op = "w_step" -> "metrics"
      [] op = "metrics" -> "telemetry"
      [] op = "telemetry" -> "fetch"

\* AfterCall with validation run before the scheduler is advanced
AfterCallValidateFirst(c) ==
    CASE c = "epoch_head" -> "train_begin"
      [] c = "train_end" -> "validate_begin"
      [] c = "val_end" -> "lr_step"
      [] c = "lr_step" -> "genotype"
      [] c = "genotype" -> "checkpoint"
      [] c = "checkpoint" -> "epoch_head"

\* AfterCall without the call of lr_scheduler.step()
AfterCallNoLrStep(c) ==
    CASE c = "epoch_head" -> "train_begin"
      [] c = "train_end" -> "validate_begin"
      [] c = "val_end" -> "genotype"
      [] c = "genotype" -> "checkpoint"
      [] c = "checkpoint" -> "epoch_head"

\* AfterCall with lr_scheduler.step() called after the rate is read, before train()
AfterCallStepFirst(c) ==
    CASE c = "epoch_head" -> "lr_step"
      [] c = "lr_step" -> "train_begin"
      [] c = "train_end" -> "validate_begin"
      [] c = "val_end" -> "genotype"
      [] c = "genotype" -> "checkpoint"
      [] c = "checkpoint" -> "epoch_head"

\* main(): the call that follows each call of the epoch body
AfterCall(c) ==
    CASE c = "epoch_head" -> "train_begin"
      [] c = "train_end" -> "lr_step"
      [] c = "lr_step" -> "validate_begin"
      [] c = "val_end" -> "genotype"
      [] c = "genotype" -> "checkpoint"
      [] c = "checkpoint" -> "epoch_head"

\* the orchestrator phase a position belongs to ("" : the position keeps the phase)
Phase(p) ==
    CASE p = "init" -> "Initializing"
      [] p \in {"epoch_head", "raised"} -> ""
      [] p = "lr_step" -> "LRStep"
      [] p \in {"validate_begin", "val_batch", "val_end"} -> "Validating"
      [] p = "genotype" -> "GenotypeExtraction"
      [] p = "checkpoint" -> "CheckpointDecision"
      [] p \in {"report", "finished"} -> "Done"
      [] OTHER -> "TrainingEpoch"

Enter(log, p) ==
    IF Phase(p) = "" \/ Phase(p) = log[Len(log)] THEN log ELSE Append(log, Phase(p))

\* lines 52-53: torch.optim.SGD(model.weights(), config.w_lr, momentum=config.w_momentum,
\* weight_decay=config.alpha_weight_decay)
WOptimConf(h) == [momentum |-> h.w_momentum, weight_decay |-> h.alpha_weight_decay]

\* line 79: Architect(model, config.w_momentum, config.w_weight_decay)
ArchConf(h) == [momentum |-> h.w_momentum, weight_decay |-> h.w_weight_decay]

\* --------------------------------------------------------------- Init
Init ==
    /\ \E c \in Configs :
        /\ n_train = c.n
        /\ batch_size = c.b
        /\ epochs = c.e
        /\ print_freq = c.pf
    /\ hyper \in Hypers
    /\ w_optim_conf = <<>> /\ arch_conf = <<>>
    /\ mode = "train"
    /\ val_step = 0
    /\ pc = "init"
    /\ train_indices = <<>> /\ valid_indices = <<>>
    /\ epoch = 0 /\ lr_sched = 0 /\ lr = 0
    /\ alpha = 0 /\ w = 0 /\ alpha_grad = "none" /\ w_grad = "none"
    /\ best_top1 = <<0, 1>> /\ best_genotype = <<>>
    /\ top1 = <<0, 1>> /\ genotype = 0
    /\ train_rem = {} /\ valid_rem = {}
    /\ train_batch = {} /\ valid_batch = {}
    /\ step = 0 /\ cur_step = 0 /\ loss = "none" /\ meter_n = 0
    /\ val_sum = 0 /\ val_n = 0
    /\ stepLog = <<>> /\ phaseLog = <<"Initializing">>
    /\ top1Hist = <<>> /\ genoHist = <<>> /\ ckptLog = <<>>
    /\ emit_train = NoEmits /\ emit_valid = NoEmits
    /\ alpha0 = 0 /\ w0 = 0 /\ fwd_read = <<0, 0>>
    /\ nonfinite_seen = FALSE
    /\ drawn = <<0, 0>>

\* ------------------------------------------------------------- main()
\* lines 30-82: seeding, data, model, optimizers, samplers, loaders, scheduler
Initialize ==
    /\ pc = "init"
    /\ pc' = "epoch_head"
    /\ train_indices' = TrainIndices(n_train)
    /\ valid_indices' = ValidIndices(n_train)
    /\ best_top1' = <<0, 1>>
    /\ w_optim_conf' = WOptimConf(hyper)
    /\ arch_conf' = ArchConf(hyper)
    /\ phaseLog' = Enter(phaseLog, pc')
    /\ UNCHANGED <<cfgVars, mode, val_step,
                   epoch, lr_sched, lr, paramVars, best_genotype, top1, genotype,
                   iterVars, step, cur_step, loss, meter_n, valVars, stepLog, histVars,
                   alpha0, w0, fwd_read, nonfinite_seen>>

\* lines 83-90: the loop takes its next epoch, reads the rate and calls train()
EpochBegin ==
    /\ pc = "epoch_head"
    /\ epoch < epochs
    /\ lr' = LastLr(lr_sched)
    /\ pc' = AfterCall("epoch_head")
    /\ phaseLog' = Enter(phaseLog, pc')
    /\ UNCHANGED <<cfgVars, optVars, mode, val_step,
                   splitVars, epoch, lr_sched, paramVars, bestVars, iterVars,
                   step, cur_step, loss, meter_n, valVars, stepLog, histVars,
                   alpha0, w0, fwd_read, nonfinite_seen>>

\* line 83: range(config.epochs) is exhausted
LoopExit ==
    /\ pc = "epoch_head"
    /\ epoch >= epochs
    /\ pc' = "report"
    /\ phaseLog' = Enter(phaseLog, pc')
    /\ UNCHANGED <<cfgVars, optVars, mode, val_step,
                   splitVars, epoch, lr_sched, lr, paramVars, bestVars, iterVars,
                   step, cur_step, loss, meter_n, valVars, stepLog, histVars,
                   alpha0, w0, fwd_read, nonfinite_seen>>

\* ------------------------------------------------------------ train()
trainLocals == <<step, cur_step, loss, meter_n>>
snapVars == <<alpha0, w0, fwd_read, nonfinite_seen>>

\* the mode of a train() that does not call model.train()
TrainModeKept == mode

\* line 146: model.train()
TrainMode == "train"

\* lines 139-148: fresh meters, cur_step, model.train(), zip() opens both loaders
TrainBegin ==
    /\ pc = "train_begin"
    /\ pc' = "fetch"
    /\ meter_n' = 0
    /\ cur_step' = epoch * LoaderLen(Len(train_indices), batch_size)
    /\ step' = 0
    /\ train_rem' = Range(train_indices)
    /\ valid_rem' = Range(valid_indices)
    /\ emit_train' = NoEmits
    /\ emit_valid' = NoEmits
    /\ drawn' = <<0, 0>>
    /\ stepLog' = <<>>
    /\ mode' = TrainMode
    /\ phaseLog' = Enter(phaseLog, pc')
    /\ UNCHANGED <<cfgVars, optVars, val_step,
                   splitVars, epoch, lr_sched, lr, paramVars, bestVars,
                   train_batch, valid_batch, loss, valVars, histVars, snapVars>>

\* lines 148-151: zip() asks the train loader, then the valid loader, for the next
\* minibatch and ends the loop at the first one that is exhausted
Fetch ==
    /\ pc = "fetch"
    /\ IF train_rem = {}
       THEN /\ pc' = "train_end"
            /\ UNCHANGED <<iterVars, stepLog, alpha0, w0>>
       ELSE \E tb \in Batches(train_rem, batch_size) :
            /\ train_rem' = Pending(train_rem, tb)
            /\ emit_train' = Emit(emit_train, tb)
            /\ IF valid_rem = {}
               THEN /\ pc' = "train_end"
                    /\ drawn' = <<drawn[1] + 1, drawn[2]>>
                    /\ UNCHANGED <<valid_rem, emit_valid, train_batch, valid_batch,
                                   stepLog, alpha0, w0>>
               ELSE \E vb \in Batches(valid_rem, batch_size) :
                    /\ valid_rem' = Pending(valid_rem, vb)
                    /\ emit_valid' = Emit(emit_valid, vb)
                    /\ drawn' = <<drawn[1] + 1, drawn[2] + 1>>
                    /\ train_batch' = tb
                    /\ valid_batch' = vb
                    /\ stepLog' = <<>>
                    /\ alpha0' = alpha
                    /\ w0' = w
                    /\ pc' = "alpha_zero_grad"
    /\ phaseLog' = Enter(phaseLog, pc')
    /\ UNCHANGED <<cfgVars, optVars, mode, val_step,
                   splitVars, epoch, lr_sched, lr, paramVars, bestVars,
                   trainLocals, valVars, histVars, fwd_read, nonfinite_seen>>

\* one statement of the loop body: its place, its successor, its trace entry
StepOp(op) ==
    /\ pc = op
    /\ pc' = AfterOp(op)
    /\ stepLog' = Append(stepLog, op)
    /\ phaseLog' = Enter(phaseLog, pc')
    /\ UNCHANGED <<cfgVars, optVars, mode, val_step,
                   splitVars, epoch, lr_sched, lr, bestVars, iterVars,
                   step, cur_step, valVars, histVars, alpha0, w0>>

\* line 154: alpha_optim.zero_grad()
AlphaZeroGrad ==
    /\ StepOp("alpha_zero_grad")
    /\ alpha_grad' = "zero"
    /\ UNCHANGED <<alpha, w, w_grad, loss, meter_n, fwd_read, nonfinite_seen>>

\* line 155: arch.unrolled_backward(...): fills alpha.grad from a virtual step, w untouched
UnrolledBackward ==
    /\ StepOp("unrolled_backward")
    /\ alpha_grad' = "populated"
    /\ UNCHANGED <<alpha, w, w_grad, loss, meter_n, fwd_read, nonfinite_seen>>

\* line 156: alpha_optim.step()
AlphaStep ==
    /\ StepOp("alpha_step")
    /\ alpha' = alpha + 1
    /\ UNCHANGED <<w, alpha_grad, w_grad, loss, meter_n, fwd_read, nonfinite_seen>>

\* line 159: w_optim.zero_grad()
WZeroGrad ==
    /\ StepOp("w_zero_grad")
    /\ w_grad' = "zero"
    /\ UNCHANGED <<alpha, w, alpha_grad, loss, meter_n, fwd_read, nonfinite_seen>>

\* lines 160-161: logits = model(train_X); loss = model.criterion(logits, train_y)
Forward ==
    /\ StepOp("forward")
    /\ \E l \in {"finite", "nonfinite"} :
        /\ loss' = l
        /\ nonfinite_seen' = (nonfinite_seen \/ l = "nonfinite")
    /\ fwd_read' = <<alpha, w>>
    /\ UNCHANGED <<paramVars, meter_n>>

\* line 162: loss.backward()
Backward ==
    /\ StepOp("backward")
    /\ w_grad' = "populated"
    /\ UNCHANGED <<alpha, w, alpha_grad, loss, meter_n, fwd_read, nonfinite_seen>>

\* line 165: nn.utils.clip_grad_norm_(model.weights(), config.w_grad_clip)
ClipGrad ==
    /\ StepOp("clip_grad")
    /\ w_grad' = "clipped"
    /\ UNCHANGED <<alpha, w, alpha_grad, loss, meter_n, fwd_read, nonfinite_seen>>

\* line 166: w_optim.step()
WStep ==
    /\ StepOp("w_step")
    /\ w' = w + 1
    /\ UNCHANGED <<alpha, alpha_grad, w_grad, loss, meter_n, fwd_read, nonfinite_seen>>

\* lines 168-171: accuracy, then the three meters take the batch
Metrics ==
    /\ StepOp("metrics")
    /\ meter_n' = meter_n + Cardinality(train_batch)
    /\ UNCHANGED <<paramVars, loss, fwd_read, nonfinite_seen>>

\* lines 173-204: progress line, scalars, alpha histograms every print_freq // 5 steps
\* (step % 0 raises ZeroDivisionError when print_freq < 5), cur_step += 1
Telemetry ==
    /\ pc = "telemetry"
    /\ IF print_freq \div 5 = 0
       THEN /\ pc' = "raised"
            /\ UNCHANGED <<step, cur_step, loss>>
       ELSE /\ pc' = AfterOp("telemetry")
            /\ cur_step' = cur_step + 1
            /\ step' = step + 1
            /\ loss' = "none"
    /\ phaseLog' = Enter(phaseLog, pc')
    /\ UNCHANGED <<cfgVars, optVars, mode, val_step,
                   splitVars, epoch, lr_sched, lr, paramVars, bestVars, iterVars,
                   meter_n, valVars, stepLog, histVars, snapVars>>

\* line 206, then main() line 91 is next
TrainEnd ==
    /\ pc = "train_end"
    /\ pc' = AfterCall("train_end")
    /\ train_rem' = {} /\ valid_rem' = {}
    /\ train_batch' = {} /\ valid_batch' = {}
    /\ phaseLog' = Enter(phaseLog, pc')
    /\ UNCHANGED <<cfgVars, optVars, mode, val_step,
                   splitVars, epoch, lr_sched, lr, paramVars, bestVars,
                   emit_train, emit_valid, drawn, trainLocals, valVars, stepLog,
                   histVars, snapVars>>

\* --------------------------------------------------- main(), continued
\* line 91: lr_scheduler.step()
LrStep ==
    /\ pc = "lr_step"
    /\ pc' = AfterCall("lr_step")
    /\ lr_sched' = lr_sched + 1
    /\ phaseLog' = Enter(phaseLog, pc')
    /\ UNCHANGED <<cfgVars, optVars, mode, val_step,
                   splitVars, epoch, lr, paramVars, bestVars, iterVars,
                   trainLocals, valVars, stepLog, histVars, snapVars>>

\* --------------------------------------------------------- validate()
\* a meter that carries its count over from the phase before
MeterKept(old) == old

\* lines 210-212: utils.AverageMeter(): a new, empty meter
MeterReset(old) == 0

\* line 214: model.eval()
EvalMode == "eval"

\* validate() handed the train loader
ValidateLoaderTrain == train_indices

\* line 95: validate(valid_loader, ...): the sampler validate() iterates
ValidateLoader == valid_indices

\* lines 94-95, 210-217: cur_step, fresh meters, model.eval(), a new pass over valid_loader
ValidateBegin ==
    /\ pc = "validate_begin"
    /\ pc' = "val_batch"
    /\ val_step' = (epoch + 1) * LoaderLen(Len(train_indices), batch_size)
    /\ val_sum' = MeterReset(val_sum)
    /\ val_n' = MeterReset(val_n)
    /\ mode' = EvalMode
    /\ valid_rem' = Range(ValidateLoader)
    /\ emit_valid' = NoEmits
    /\ phaseLog' = Enter(phaseLog, pc')
    /\ UNCHANGED <<cfgVars, optVars,
                   splitVars, epoch, lr_sched, lr, paramVars, bestVars,
                   train_rem, train_batch, valid_batch, emit_train, drawn,
                   trainLocals, stepLog, histVars, snapVars>>

\* lines 217-227: one validation minibatch; prec1 = correct / N, top1.update(prec1, N)
ValBatch ==
    /\ pc = "val_batch"
    /\ valid_rem # {}
    /\ \E vb \in Batches(valid_rem, batch_size) :
        /\ valid_rem' = Pending(valid_rem, vb)
        /\ emit_valid' = Emit(emit_valid, vb)
        /\ valid_batch' = vb
        /\ \E correct \in 0..Cardinality(vb) :
            /\ val_sum' = val_sum + correct
            /\ val_n' = val_n + Cardinality(vb)
    /\ UNCHANGED <<cfgVars, optVars, mode, val_step,
                   pc, splitVars, epoch, lr_sched, lr, paramVars, bestVars,
                   train_rem, train_batch, emit_train, drawn, trainLocals, stepLog,
                   phaseLog, histVars, snapVars>>

\* lines 241-247 and main() line 95: the loader is exhausted, top1 = top1.avg
ValEnd ==
    /\ pc = "val_batch"
    /\ valid_rem = {}
    /\ pc' = AfterCall("val_end")
    /\ top1' = Avg(val_sum, val_n)
    /\ top1Hist' = Append(top1Hist, top1')
    /\ valid_batch' = {}
    /\ phaseLog' = Enter(phaseLog, pc')
    /\ UNCHANGED <<cfgVars, optVars, mode, val_step,
                   splitVars, epoch, lr_sched, lr, paramVars, best_top1,
                   best_genotype, genotype, train_rem, valid_rem, train_batch,
                   emit_train, emit_valid, drawn, trainLocals, valVars, stepLog,
                   genoHist, ckptLog, snapVars>>

\* lines 99-100: genotype = model.genotype()
GenotypeExtract ==
    /\ pc = "genotype"
    /\ pc' = AfterCall("genotype")
    /\ genotype' = Genotype(alpha)
    /\ genoHist' = Append(genoHist, genotype')
    /\ phaseLog' = Enter(phaseLog, pc')
    /\ UNCHANGED <<cfgVars, optVars, mode, val_step,
                   splitVars, epoch, lr_sched, lr, paramVars, best_top1,
                   best_genotype, top1, iterVars, trainLocals, valVars, stepLog,
                   top1Hist, ckptLog, snapVars>>

\* Improves with "<=" for "<"
ImprovesOrTies(best, t) == ~RatLess(t, best)

\* Improves that records every epoch as the best
ImprovesAlways(best, t) == TRUE

\* line 124: best_top1 < top1
Improves(best, t) == RatLess(best, t)

\* lines 124-131: the best record and utils.save_checkpoint(model, path, is_best);
\* the write may fail, and nothing in main() catches what it raises
Checkpoint ==
    /\ pc = "checkpoint"
    /\ \E saved \in BOOLEAN :
        /\ LET is_best == Improves(best_top1, top1)
           IN /\ best_top1' = IF is_best THEN top1 ELSE best_top1
              /\ best_genotype' = IF is_best THEN <<genotype>> ELSE best_genotype
              /\ ckptLog' = Append(ckptLog, [epoch |-> epoch, is_best |-> is_best,
                                             before |-> best_top1,
                                             geno_before |-> best_genotype,
                                             top1 |-> top1, saved |-> saved])
        /\ pc' = IF saved THEN AfterCall("checkpoint") ELSE "raised"
        /\ epoch' = IF saved THEN epoch + 1 ELSE epoch
    /\ phaseLog' = Enter(phaseLog, pc')
    /\ UNCHANGED <<cfgVars, optVars, mode, val_step,
                   splitVars, lr_sched, lr, paramVars, top1, genotype, iterVars,
                   trainLocals, valVars, stepLog, top1Hist, genoHist, snapVars>>

\* lines 133-135: the final report; best_genotype is read whether or not it was bound
Report ==
    /\ pc = "report"
    /\ pc' = IF best_genotype = <<>> THEN "raised" ELSE "finished"
    /\ UNCHANGED <<cfgVars, optVars, mode, val_step,
                   splitVars, epoch, lr_sched, lr, paramVars, bestVars, iterVars,
                   trainLocals, valVars, stepLog, phaseLog, histVars, snapVars>>

Next ==
    \/ Initialize \/ EpochBegin \/ LoopExit
    \/ TrainBegin \/ Fetch
    \/ AlphaZeroGrad \/ UnrolledBackward \/ AlphaStep
    \/ WZeroGrad \/ Forward \/ Backward \/ ClipGrad \/ WStep \/ Metrics
    \/ Telemetry \/ TrainEnd
    \/ LrStep \/ ValidateBegin \/ ValBatch \/ ValEnd
    \/ GenotypeExtract \/ Checkpoint \/ Report

Spec == Init /\ [][Next]_vars

\* main() is one thread of straight-line code and bounded loops: a statement that can
\* run does run
FairSpec == Spec /\ WF_vars(Next)

\* ============================================================ properties
IsPrefix(s, t) == Len(s) <= Len(t) /\ \A i \in 1..Len(s) : s[i] = t[i]

\* the step sequence of the bilevel protocol
NineSteps == <<"alpha_zero_grad", "unrolled_backward", "alpha_step", "w_zero_grad",
               "forward", "backward", "clip_grad", "w_step", "metrics">>

StepPcs == Range(NineSteps)

\* the place of a step position in the protocol
StepIndex(p) == CHOOSE i \in 1..Len(NineSteps) : NineSteps[i] = p

\* C1: in every minibatch step the nine operations happen exactly once each, in the
\* protocol's order (the operations done so far are exactly those before the current
\* position, and the gradients an optimizer step consumes are the ones just made), and
\* the next pair is fetched only after the metric update of the step before: every
\* pair fetched so far but the one in progress has had its complete step.
C1_StepOrder ==
    /\ IsPrefix(stepLog, NineSteps)
    /\ pc \in StepPcs => /\ stepLog = SubSeq(NineSteps, 1, StepIndex(pc) - 1)
                         /\ drawn[2] = step + 1
    /\ pc = "telemetry" => stepLog = NineSteps /\ drawn[2] = step + 1
    /\ pc \in {"fetch", "train_end"} =>
           /\ drawn[2] = step
           /\ step > 0 => stepLog = NineSteps /\ alpha = alpha0 + 1 /\ w = w0 + 1
    /\ pc = "alpha_step" => alpha_grad = "populated"
    /\ pc = "w_step" => w_grad = "clipped"
    /\ pc = "clip_grad" => w_grad = "populated"

\* C1 witness: a second minibatch step has completed all nine operations
C1_Witness == pc = "fetch" /\ step = 2 /\ stepLog = NineSteps /\ w = 2 /\ alpha = 2

\* C2: within a step alpha keeps its step-start value until alpha_optim.step() and w
\* keeps its step-start value until w_optim.step(): w is the same after the unrolled
\* call as before it, and the forward pass read the updated alpha with the old w.
C2_ParamsHeld ==
    /\ pc \in {"alpha_zero_grad", "unrolled_backward", "alpha_step"} => alpha = alpha0
    /\ pc \in StepPcs /\ StepIndex(pc) <= StepIndex("w_step") => w = w0
    /\ pc \in StepPcs /\ StepIndex(pc) > StepIndex("alpha_step") => alpha = alpha0 + 1
    /\ pc \in StepPcs /\ StepIndex(pc) > StepIndex("forward") =>
           fwd_read = <<alpha0 + 1, w0>>
    /\ pc \in {"metrics", "telemetry"} => w = w0 + 1 /\ alpha = alpha0 + 1

\* C2 witness: in a later step, after the forward pass, before the weight update
C2_Witness == pc = "w_step" /\ step = 1 /\ fwd_read = <<2, 1>> /\ w = 1 /\ alpha = 2

\* the best record the program holds after checkpoint decision i
BestAfter(i) == IF i < Len(ckptLog) THEN ckptLog[i + 1].before ELSE best_top1
GenoAfter(i) == IF i < Len(ckptLog) THEN ckptLog[i + 1].geno_before ELSE best_genotype

\* the earliest of the first k epochs whose validation top-1 equals v
Earliest(v, k) ==
    CHOOSE e \in 1..k : RatEq(top1Hist[e], v) /\ \A d \in 1..(e - 1) : ~RatEq(top1Hist[d], v)

\* C3: the recorded best top-1 never decreases from one epoch to the next and is at
\* least every validation top-1 seen; a recorded best genotype is the one extracted in
\* the earliest epoch whose top-1 equals the record; an epoch whose top-1 is equal to or
\* lower than the record leaves record and genotype as they were.
C3_BestMonotone ==
    /\ \A i \in 1..Len(ckptLog) :
        /\ ~RatLess(BestAfter(i), ckptLog[i].before)
        /\ ~RatLess(BestAfter(i), top1Hist[i])
        /\ ~RatLess(ckptLog[i].before, ckptLog[i].top1) =>
               /\ BestAfter(i) = ckptLog[i].before
               /\ GenoAfter(i) = ckptLog[i].geno_before
    /\ best_genotype # <<>> =>
        /\ \E e \in 1..Len(ckptLog) : RatEq(top1Hist[e], best_top1)
        /\ best_genotype = <<genoHist[Earliest(best_top1, Len(ckptLog))]>>
    /\ best_genotype = <<>> => best_top1 = <<0, 1>>

\* C3 witness: two epochs tie on a non-zero top-1 with different genotypes, and the
\* record names the first
C3_Witness ==
    /\ Len(ckptLog) = 2
    /\ RatEq(top1Hist[1], top1Hist[2])
    /\ RatLess(<<0, 1>>, top1Hist[1])
    /\ genoHist[1] # genoHist[2]
    /\ best_genotype = <<genoHist[1]>>

\* the highest of 0 and the first k validation top-1 values
RECURSIVE BestOf(_)
BestOf(k) ==
    IF k = 0 THEN <<0, 1>>
    ELSE IF RatLess(BestOf(k - 1), top1Hist[k]) THEN top1Hist[k] ELSE BestOf(k - 1)

\* C4: one checkpoint request per epoch, issued after that epoch's validation and
\* genotype extraction and at no other position, with is_best true exactly when the
\* epoch's top-1 is strictly above the best of the earlier epochs (0 at the start).
C4_CheckpointPerEpoch ==
    /\ Len(ckptLog) = epoch + (IF \E i \in 1..Len(ckptLog) : ~ckptLog[i].saved THEN 1 ELSE 0)
    /\ Len(ckptLog) = (IF pc = "checkpoint" THEN Len(genoHist) - 1 ELSE Len(genoHist))
    /\ Len(ckptLog) = (IF pc \in {"genotype", "checkpoint"}
                       THEN Len(top1Hist) - 1 ELSE Len(top1Hist))
    /\ \A i \in 1..Len(ckptLog) :
        /\ ckptLog[i].epoch = i - 1
        /\ ckptLog[i].top1 = top1Hist[i]
        /\ ckptLog[i].is_best <=> RatLess(BestOf(i - 1), top1Hist[i])
        /\ ~ckptLog[i].is_best => GenoAfter(i) = ckptLog[i].geno_before

\* C4 witness: a later epoch scores lower than an earlier one; its request is not
\* is-best and the record stays at the earlier epoch
C4_Witness ==
    /\ Len(ckptLog) = 2
    /\ RatLess(top1Hist[2], top1Hist[1])
    /\ ckptLog[1].is_best /\ ~ckptLog[2].is_best
    /\ best_top1 = top1Hist[1]
    /\ best_genotype = <<genoHist[1]>>

\* the phases of one epoch and of a whole run of e epochs
EpochPhases == <<"TrainingEpoch", "LRStep", "Validating", "GenotypeExtraction",
                 "CheckpointDecision">>

RECURSIVE RunPhases(_)
RunPhases(e) == IF e = 0 THEN <<"Initializing">> ELSE RunPhases(e - 1) \o EpochPhases

\* C5: the phases entered so far are Initializing once, then the five phases of each
\* epoch in order, then Done after the last epoch; the current position lies in the
\* last phase entered; and every epoch's genotype is extracted from the alpha of that
\* moment, whatever the validation returned.
C5_PhaseOrder ==
    /\ IsPrefix(phaseLog, Append(RunPhases(epochs), "Done"))
    /\ Phase(pc) # "" => phaseLog[Len(phaseLog)] = Phase(pc)
    /\ phaseLog[Len(phaseLog)] = "Done" => Len(phaseLog) = 5 * epochs + 2
    /\ pc = "checkpoint" =>
        /\ genotype = Genotype(alpha)
        /\ genoHist[Len(genoHist)] = genotype
        /\ Len(genoHist) = epoch + 1
        /\ Len(top1Hist) = epoch + 1

\* C5 witness: a run of two epochs has reached Done through all phases
C5_Witness ==
    /\ pc = "finished"
    /\ epochs = 2
    /\ phaseLog = Append(RunPhases(2), "Done")

\* C6: a run that reaches Done reports the best top-1 and the genotype that achieved
\* it: at the final report a best genotype is bound, for every epoch count and every
\* sequence of validation top-1 values.
C6_ReportHasGenotype == pc = "report" => best_genotype # <<>>

\* C7: once a non-finite loss has been observed the run is aborted: no optimizer step,
\* no further minibatch step and no further epoch follows it.
C7_NonFiniteAborts ==
    [][nonfinite_seen =>
          /\ w' = w
          /\ alpha' = alpha
          /\ step' = step
          /\ epoch' = epoch]_vars

\* C8: when train() leaves its loop the number of steps taken is the minibatch count
\* of the shorter loader, one of the two passes is exhausted, and the k-th step works
\* on the k-th minibatch of either pass; N=100 with batch size 10 gives 5 steps.
C8_LockstepSteps ==
    /\ pc = "train_end" =>
        /\ step = Min(LoaderLen(Len(train_indices), batch_size),
                      LoaderLen(Len(valid_indices), batch_size))
        /\ train_rem = {} \/ valid_rem = {}
        /\ meter_n = Min(Len(train_indices), step * batch_size)
        /\ n_train = 100 /\ batch_size = 10 => step = 5
    /\ pc \in StepPcs \cup {"telemetry"} =>
        /\ drawn = <<step + 1, step + 1>>
        /\ train_batch # {} /\ valid_batch # {}
        /\ step < Min(LoaderLen(Len(train_indices), batch_size),
                      LoaderLen(Len(valid_indices), batch_size))
    /\ pc = "fetch" => drawn = <<step, step>>

\* C8 witness: the N=100, batch 10 scenario has left the loop after 5 pairs
C8_Witness ==
    /\ pc = "train_end" /\ n_train = 100 /\ batch_size = 10
    /\ step = 5 /\ drawn = <<5, 5>> /\ meter_n = 50

\* C9: the two index lists are disjoint, cover 0..N-1 without repeats, and have
\* floor(N/2) and N - floor(N/2) entries.
C9_SplitPartition ==
    pc # "init" =>
        /\ Range(train_indices) \cap Range(valid_indices) = {}
        /\ Range(train_indices) \cup Range(valid_indices) = 0..(n_train - 1)
        /\ Cardinality(Range(train_indices)) = Len(train_indices)
        /\ Cardinality(Range(valid_indices)) = Len(valid_indices)
        /\ 2 * Len(train_indices) <= n_train /\ n_train < 2 * Len(train_indices) + 2
        /\ Len(valid_indices) = n_train - Len(train_indices)

\* C9 witness: an odd dataset size, split 1 + 2
C9_Witness ==
    /\ pc = "epoch_head" /\ n_train = 3
    /\ train_indices = <<0>> /\ valid_indices = <<1, 2>>

\* C10: the halves are the same in every epoch; a minibatch used for the weight update
\* holds only train-half indexes, a minibatch used for the architecture gradient or by
\* validate() only valid-half indexes, and no pass emits an index twice.
C10_HalvesFixed ==
    pc # "init" =>
        /\ Range(train_indices) = 0..((n_train \div 2) - 1)
        /\ Range(valid_indices) = (n_train \div 2)..(n_train - 1)
        /\ train_batch \subseteq Range(train_indices)
        /\ valid_batch \subseteq Range(valid_indices)
        /\ \A i \in 0..(n_train - 1) :
            /\ emit_train[i] <= 1
            /\ emit_valid[i] <= 1
            /\ emit_train[i] = 1 => i \in Range(train_indices)
            /\ emit_valid[i] = 1 => i \in Range(valid_indices)
            /\ pc \in StepPcs \cup {"fetch", "telemetry", "train_end"} =>
                   (emit_train[i] = 1 <=> i \in Range(train_indices) \ train_rem)
            /\ pc = "val_batch" =>
                   (emit_valid[i] = 1 <=> i \in Range(valid_indices) \ valid_rem)

\* C10 witness: in the second epoch a weight update is about to use a train-half
\* minibatch paired with a valid-half minibatch, late in the pass
C10_Witness ==
    /\ pc = "w_step" /\ epoch = 1 /\ step = 1
    /\ train_batch # {} /\ valid_batch # {}
    /\ \E i \in Range(train_indices) : emit_train[i] = 1 /\ i \notin train_batch

\* C11: no step taken inside validate() changes alpha, w or either gradient state, nor
\* touches the train-half pass (its pending indexes, its emission counts, the number of
\* train minibatches drawn); the minibatches it reads hold valid-half indexes only.
C11_ValidateFrame ==
    [][Phase(pc) = "Validating" =>
          /\ alpha' = alpha /\ w' = w
          /\ alpha_grad' = alpha_grad /\ w_grad' = w_grad
          /\ train_rem' = train_rem /\ train_batch' = train_batch
          /\ emit_train' = emit_train /\ drawn' = drawn
          /\ valid_rem' \subseteq Range(valid_indices)
          /\ valid_batch' \subseteq Range(valid_indices)]_vars

\* C11 witness: a validation pass has read its whole stream after real training
C11_Witness ==
    /\ pc = "val_batch" /\ valid_rem = {} /\ val_n = 3
    /\ epoch = 1 /\ w = 4 /\ alpha = 4 /\ w_grad = "clipped"

\* C12: when validate() returns, every valid-half index has been evaluated exactly
\* once in this pass (a final partial minibatch included), the meter holds exactly
\* N - floor(N/2) examples whatever earlier phases counted, and the top-1 returned is
\* the number of correct examples of this pass over that count.
C12_ValidateCoversHalf ==
    /\ pc = "val_batch" =>
        /\ val_n = Cardinality(Range(valid_indices) \ valid_rem)
        /\ val_sum <= val_n
        /\ \A i \in 0..(n_train - 1) :
               emit_valid[i] = (IF i \in Range(valid_indices) \ valid_rem THEN 1 ELSE 0)
    /\ pc = "genotype" =>
        /\ val_n = n_train - (n_train \div 2)
        /\ \A i \in Range(valid_indices) : emit_valid[i] = 1
        /\ top1 = (IF n_train = 0 THEN <<0, 1>> ELSE <<val_sum, n_train - (n_train \div 2)>>)
        /\ top1Hist[Len(top1Hist)] = top1

\* C12 witness: in the second epoch a pass of 3 examples in minibatches of 2 and 1
\* returned 2/3
C12_Witness ==
    /\ pc = "genotype" /\ epoch = 1 /\ n_train = 5 /\ batch_size = 2
    /\ top1 = <<2, 3>> /\ Cardinality(valid_batch) = 0 /\ val_n = 3

\* C13: a checkpoint write that fails in an epoch that is not the last does not stop
\* the run: main() goes on to the next epoch.
C13_SaveFailureTolerated ==
    [][(pc = "checkpoint" /\ pc' # pc /\ epoch + 1 < epochs
            /\ ~ckptLog'[Len(ckptLog')].saved)
          => pc' = "epoch_head"]_vars

\* C14: for every positive print_freq the reporting of a minibatch step completes and
\* the loop goes on to fetch the next pair.
C14_TelemetryNeverFails == [][pc = "telemetry" /\ pc' # pc => pc' = "fetch"]_vars

\* the number of times a phase has been entered
Entered(ph) == Cardinality({i \in 1..Len(phaseLog) : phaseLog[i] = ph})

\* C15: a run in which no step fails reaches Done (every fair run reaches Done or has
\* a step raise, and no position short of the end is stuck), and at Done it has run
\* exactly config.epochs training epochs, scheduler steps, validations, genotype
\* extractions and checkpoint decisions, none of them failed.
C15_RunsToDone ==
    /\ <>(pc \in {"report", "raised"})
    /\ [](pc \in {"finished", "raised"} \/ ENABLED Next)
    /\ [](pc = "report" =>
            /\ epoch = epochs
            /\ Entered("TrainingEpoch") = epochs
            /\ Entered("LRStep") = epochs /\ lr_sched = epochs
            /\ Entered("Validating") = epochs /\ Len(top1Hist) = epochs
            /\ Entered("GenotypeExtraction") = epochs /\ Len(genoHist) = epochs
            /\ Entered("CheckpointDecision") = epochs /\ Len(ckptLog) = epochs
            /\ \A i \in 1..Len(ckptLog) : ckptLog[i].saved)

\* C15 witness: a run of three epochs over five examples is at Done
C15_Witness ==
    /\ pc = "report" /\ epochs = 3 /\ n_train = 5
    /\ lr_sched = 3 /\ Len(ckptLog) = 3 /\ w > 0

\* the positions inside train()'s loop over minibatch pairs
LoopPcs == StepPcs \cup {"fetch", "telemetry"}

\* C16: the scheduler has been advanced exactly epoch times while an epoch trains and
\* exactly epoch + 1 times from the end of its training step on (validation, genotype,
\* checkpoint), so the advance is the one between train() and validate(); the rate an
\* epoch trains with is the schedule's value after epoch advances, the configured
\* initial rate in epoch 0; the position never exceeds config.epochs.
C16_SchedulerOncePerEpoch ==
    /\ lr_sched <= epochs
    /\ pc \in LoopPcs \cup {"train_begin", "train_end", "lr_step"} =>
        /\ lr_sched = epoch
        /\ lr = LastLr(epoch)
        /\ epoch = 0 => lr = WLr
    /\ pc \in {"validate_begin", "val_batch", "genotype", "checkpoint"} =>
        /\ lr_sched = epoch + 1
        /\ Entered("LRStep") = epoch + 1
    /\ pc = "epoch_head" => lr_sched = epoch

\* C16 witness: the last of three epochs trains with the rate after two advances,
\* below the initial rate and above the floor
C16_Witness ==
    /\ pc = "w_step" /\ epochs = 3 /\ epoch = 2 /\ lr_sched = 2
    /\ lr = LastLr(2) /\ lr < WLr /\ lr > WLrMin

\* C17: at every position of every minibatch step the rate main() read at the start
\* of the epoch and hands to unrolled_backward is the rate the scheduler currently
\* gives w_optim: the scheduler does not move while train() runs.
C17_LrNotStale ==
    /\ pc \in LoopPcs => lr = LastLr(lr_sched)
    /\ \A a, b \in 0..epochs : a < b => LastLr(b) < LastLr(a)

\* C17 witness: the second minibatch step of the second epoch is at the unrolled
\* call, with a rate that is no longer the initial one
C17_Witness ==
    /\ pc = "unrolled_backward" /\ epoch = 1 /\ step = 1
    /\ lr_sched = 1 /\ lr # WLr

\* C18: once built, w_optim and the Architect hold the same momentum and the same
\* weight decay, and that decay is config.w_weight_decay.
C18_SameMomentumAndDecay ==
    pc # "init" =>
        /\ w_optim_conf.momentum = arch_conf.momentum
        /\ w_optim_conf.weight_decay = arch_conf.weight_decay
        /\ w_optim_conf.weight_decay = hyper.w_weight_decay

\* minibatches per epoch of the train half
TrainLen == LoaderLen(Len(train_indices), batch_size)

\* C19: with L = len(train_loader), step number step of epoch e is reported under
\* index e*L + step < (e+1)*L, train() ends at index (e+1)*L, and that is the index
\* validate() is handed for epoch e; the valid loader has at least L minibatches.
C19_StepIndexConsistent ==
    /\ pc \in StepPcs \cup {"telemetry"} =>
        /\ step < TrainLen
        /\ cur_step = epoch * TrainLen + step
    /\ pc = "fetch" => cur_step = epoch * TrainLen + step /\ step <= TrainLen
    /\ pc \in {"train_end", "lr_step", "validate_begin"} =>
        cur_step = (epoch + 1) * TrainLen
    /\ pc \in {"val_batch", "genotype", "checkpoint"} =>
        /\ val_step = (epoch + 1) * TrainLen
        /\ val_step = cur_step
    /\ pc # "init" => TrainLen <= LoaderLen(Len(valid_indices), batch_size)

\* C19 witness: the third validation of a run whose train half of 2 examples makes one
\* (partial) minibatch of batch size 3 per epoch is reported under index 3
C19_Witness ==
    /\ pc = "val_batch" /\ n_train = 5 /\ batch_size = 3 /\ epoch = 2
    /\ val_step = 3 /\ cur_step = 3 /\ valid_rem = {}

\* C20: every position of a minibatch step is run in training mode and every
\* validation minibatch in evaluation mode.
C20_ModePerPhase ==
    /\ pc \in LoopPcs => mode = "train"
    /\ pc = "val_batch" => mode = "eval"

\* C20 witness: the first minibatch step after a validation is at the unrolled call
\* in training mode
C20_Witness ==
    /\ pc = "unrolled_backward" /\ epoch = 1 /\ step = 0
    /\ mode = "train" /\ Len(top1Hist) = 1

====
